---- MODULE Spec2Model ----
(***************************************************************************)
(* Auction lifecycle of the marketplace backend: the Product document     *)
(* (src/models/Product.js), the create, bid, update, reserve, notify,     *)
(* delete and purchase routes (src/unnamed/part_004), and the settlement  *)
(* job and notification                                                    *)
(* sweep (src/unnamed/part_000 and the process-ended route).              *)
(*                                                                         *)
(* The store is MongoDB through Mongoose.  A request first loads a        *)
(* document (findById / find), changes the in-memory copy, and save()     *)
(* sends only the modified paths ($set) and the pushed array elements     *)
(* ($push) with the filter {_id}: the schema sets neither                 *)
(* optimisticConcurrency nor any version filter, so a save never fails    *)
(* because the stored record changed since it was loaded.  Before the     *)
(* write save() validates the paths of the document, loaded ones          *)
(* included, and then runs the schema's pre-save hook; a document that    *)
(* fails validation is not written and save() throws.                     *)
(*                                                                         *)
(* Amounts and times are integers: one unit of price, one tick of clock.  *)
(***************************************************************************)
EXTENDS Integers, Sequences, FiniteSets, TLC

VARIABLES clock, db, bids, jobs, ops

vars == <<clock, db, bids, jobs, ops>>

(* ------------------------------ bounds -------------------------------- *)
MaxTime == 2
MaxAmount == 5
MaxBids == 2
EndTime == 1
StartPrice == 1
Increment == 2
MaxQuantity == 2
MaxRuns == 2

(* --------------------------- program values --------------------------- *)
NoTime == -1
Null == "null"
OwnerEmail == "owner@shop.hr"

Products == {"p1", "p2"}
ProductOrder == <<"p1", "p2">>
NoProduct == "none"

Times == 0..MaxTime
Amounts == 0..MaxAmount

(* A record as the creation route stores it for an auction. *)
NewAuction ==
  [isBidding |-> TRUE, stock |-> 1, biddingStatus |-> "active",
   biddingEndTime |-> EndTime, currentPrice |-> StartPrice,
   minimumBidIncrement |-> Increment, bestBidder |-> Null,
   bestBidderEmail |-> Null, bidHistory |-> <<>>, winnerNotified |-> FALSE,
   reservedForWinner |-> FALSE, userEmail |-> OwnerEmail]

(* A record of a regular listing: the schema defaults. *)
NewRegular ==
  [NewAuction EXCEPT !.isBidding = FALSE, !.biddingStatus = "sold",
                     !.biddingEndTime = NoTime]

(* ------------------------- in-memory documents ------------------------ *)
(* v: the field values, mod: the modified paths, pushed: the bid history  *)
(* elements pushed since the load.                                         *)
Load(r) == [v |-> r, mod |-> {}, pushed |-> <<>>]

NoDoc == Load(NewRegular)

SetPath(d, f, x) ==
  IF d.v[f] = x THEN d ELSE [d EXCEPT !.v[f] = x, !.mod = @ \cup {f}]

PushBid(d, e) ==
  [d EXCEPT !.v.bidHistory = Append(@, e), !.pushed = Append(@, e)]

(* updateOne({_id}, {$set: modified paths, $push: pushed elements}) *)
Commit(r, d) ==
  [f \in DOMAIN r |->
     IF f = "bidHistory" THEN r.bidHistory \o d.pushed
     ELSE IF f \in d.mod THEN d.v[f] ELSE r[f]]

Truthy(s) == s # Null /\ s # ""

bidCount(d) == Len(d.v.bidHistory)

(* ----------------------------- Product.js ----------------------------- *)
(* canBid without the status check *)
canBidIgnoresStatus(d, now) ==
  IF ~d.v.isBidding \/ d.v.stock <= 0 THEN FALSE
  ELSE IF d.v.biddingEndTime # NoTime /\ now >= d.v.biddingEndTime THEN FALSE
  ELSE TRUE

canBid(d, now) ==
  IF ~d.v.isBidding \/ d.v.stock <= 0 THEN FALSE
  ELSE IF d.v.biddingStatus # "active" THEN FALSE
  ELSE IF d.v.biddingEndTime # NoTime /\ now >= d.v.biddingEndTime THEN FALSE
  ELSE TRUE

(* timeRemaining && timeRemaining.expired *)
timeRemainingExpired(d, now) ==
  IF ~d.v.isBidding \/ d.v.biddingEndTime = NoTime THEN FALSE
  ELSE d.v.biddingEndTime - now <= 0

(* minimumBid without the increment *)
minimumBidNoIncrement(d) == d.v.currentPrice

minimumBid(d) == d.v.currentPrice + d.v.minimumBidIncrement

(* placeBid that leaves bestBidderEmail as it was *)
placeBidKeepsEmail(d, bidder, bidderEmail, amount, now1, now2) ==
  IF d.v.isBidding /\ d.v.stock > 0 /\ d.v.biddingStatus = "active"
     /\ ~(d.v.biddingEndTime # NoTime /\ now1 >= d.v.biddingEndTime)
     /\ amount >= d.v.currentPrice + d.v.minimumBidIncrement
    THEN LET e == [bidder |-> bidder, bidderEmail |-> bidderEmail,
                   amount |-> amount, timestamp |-> now2]
         IN [error |-> "none", minimum |-> 0,
             doc |-> SetPath(SetPath(PushBid(d, e), "currentPrice", amount),
                             "bestBidder", bidder)]
  ELSE IF amount < d.v.currentPrice + d.v.minimumBidIncrement
          /\ d.v.isBidding /\ d.v.stock > 0 /\ d.v.biddingStatus = "active"
          /\ ~(d.v.biddingEndTime # NoTime /\ now1 >= d.v.biddingEndTime)
    THEN [error |-> "BidTooLow",
          minimum |-> d.v.currentPrice + d.v.minimumBidIncrement, doc |-> d]
  ELSE [error |-> "BiddingNotAvailable", minimum |-> 0, doc |-> d]

(* placeBid: now1 is the clock canBid reads, now2 the bid's timestamp. *)
placeBid(d, bidder, bidderEmail, amount, now1, now2) ==
  IF ~canBid(d, now1)
    THEN [error |-> "BiddingNotAvailable", minimum |-> 0, doc |-> d]
  ELSE IF amount < minimumBid(d)
    THEN [error |-> "BidTooLow", minimum |-> minimumBid(d), doc |-> d]
  ELSE
    LET e  == [bidder |-> bidder, bidderEmail |-> bidderEmail,
               amount |-> amount, timestamp |-> now2]
        d1 == PushBid(d, e)
        d2 == SetPath(d1, "currentPrice", amount)
        d3 == SetPath(d2, "bestBidder", bidder)
        d4 == SetPath(d3, "bestBidderEmail", bidderEmail)
    IN [error |-> "none", minimum |-> 0, doc |-> d4]

(* isBiddingEnded without its first line *)
isBiddingEndedAnyRecord(d, now) ==
  IF d.v.biddingStatus = "ended" \/ d.v.biddingStatus = "sold" THEN TRUE
  ELSE IF d.v.biddingEndTime # NoTime /\ now >= d.v.biddingEndTime THEN TRUE
  ELSE FALSE

isBiddingEnded(d, now) ==
  IF ~d.v.isBidding THEN FALSE
  ELSE IF d.v.biddingStatus = "ended" \/ d.v.biddingStatus = "sold" THEN TRUE
  ELSE IF d.v.biddingEndTime # NoTime /\ now >= d.v.biddingEndTime THEN TRUE
  ELSE FALSE

(* reserveForWinner that only sets the status *)
reserveForWinnerStatusOnly(d, now) ==
  IF ~isBiddingEnded(d, now) \/ ~Truthy(d.v.bestBidder)
    THEN [error |-> "CannotReserve", doc |-> d]
  ELSE [error |-> "none", doc |-> SetPath(d, "biddingStatus", "ended")]

reserveForWinner(d, now) ==
  IF ~isBiddingEnded(d, now) \/ ~Truthy(d.v.bestBidder)
    THEN [error |-> "CannotReserve", doc |-> d]
  ELSE [error |-> "none",
        doc |-> SetPath(SetPath(d, "reservedForWinner", TRUE),
                        "biddingStatus", "ended")]

(* a hook that resolves whatever the status is *)
preSaveIgnoresStatus(d, now) ==
  IF d.v.isBidding /\ d.v.biddingEndTime # NoTime /\ now >= d.v.biddingEndTime
    THEN SetPath(SetPath(d, "biddingStatus", "ended"),
                 "reservedForWinner", Truthy(d.v.bestBidder))
  ELSE d

(* a hook that flags the winner and leaves the status as it is *)
preSaveKeepsStatus(d, now) ==
  IF d.v.isBidding /\ d.v.biddingEndTime # NoTime /\ now >= d.v.biddingEndTime
     /\ d.v.biddingStatus = "active" /\ Truthy(d.v.bestBidder)
    THEN SetPath(d, "reservedForWinner", TRUE)
  ELSE d

(* pre("save"): the end-time branch never runs for a record of the routes *)
(* (they always store biddingEndTime), so only the expiry branch is here. *)
preSave(d, now) ==
  IF d.v.isBidding /\ d.v.biddingEndTime # NoTime /\ now >= d.v.biddingEndTime
     /\ d.v.biddingStatus = "active"
    THEN LET d1 == SetPath(d, "biddingStatus", "ended")
         IN IF Truthy(d1.v.bestBidder)
              THEN SetPath(d1, "reservedForWinner", TRUE) ELSE d1
  ELSE d

(* ------------------------ POST /:id/bid (route) ------------------------ *)
(* The bidders a request may name: <<bidder, bidderEmail>>.               *)
(* The validator of biddingEndTime. save() validates every path of a     *)
(* loaded document, modified or not; this is the only validator whose     *)
(* verdict on a stored value changes, with the clock.                     *)
validBiddingEndTime(d, now) ==
  IF d.v.isBidding /\ d.v.biddingEndTime = NoTime THEN FALSE
  ELSE IF d.v.biddingEndTime # NoTime /\ d.v.biddingEndTime <= now THEN FALSE
  ELSE TRUE

(* save() up to the write: validation at now1 is the first pre-save hook, *)
(* the schema's own hook follows at now2; an invalid document is not      *)
(* written and the error is thrown.                                       *)
save(d, now1, now2) ==
  IF ~validBiddingEndTime(d, now1)
    THEN [error |-> "ValidationError", doc |-> d]
  ELSE [error |-> "none", doc |-> preSave(d, now2)]

BidInputs ==
  { <<"Ana", "ana@mail.hr">>, <<" Ana ", "ana@mail.hr">>,
    <<"Bob", "bob@mail.hr">>, <<"Owner", OwnerEmail>>,
    <<"  ", "bob@mail.hr">>, <<"Bob", "bob-at-mail">> }

RaceInputs == { <<"Ana", "ana@mail.hr">>, <<"Bob", "bob@mail.hr">> }

GhostId == "ffffffffffffffffffffffff"

(* String.prototype.trim on the strings above *)
Trim(s) == CASE s = " Ana " -> "Ana" [] s = "  " -> "" [] OTHER -> s

(* /^\S+@\S+\.\S+$/ on the strings above *)
EmailOk(e) == e \in {OwnerEmail, "ana@mail.hr", "bob@mail.hr"}

validationErrors(bidAmount, bidder, bidderEmail) ==
  (IF bidAmount = 0 \/ bidAmount <= 0 THEN {"amount"} ELSE {})
  \cup (IF Trim(bidder) = "" THEN {"bidder"} ELSE {})
  \cup (IF Trim(bidderEmail) = "" THEN {"email"} ELSE {})
  \cup (IF ~EmailOk(bidderEmail) THEN {"emailFormat"} ELSE {})

IdleBid ==
  [pc |-> "idle", product |-> NoProduct, bidder |-> "", bidderEmail |-> "",
   amount |-> 0, read |-> NewRegular, doc |-> NoDoc, checkedAt |-> 0,
   result |-> "none", minimum |-> 0, newHighestBid |-> 0]

(* Requests that hold a loaded copy of p and may still write it. *)
InFlight(p) ==
  Cardinality({b \in DOMAIN bids :
                 bids[b].product = p /\ bids[b].pc \in {"found", "save", "commit"}})

(* Validation, then findById. *)
BidRequest(b, p, who, amt) ==
  /\ bids[b].pc = "idle"
  /\ LET req == [IdleBid EXCEPT !.product = p, !.bidder = who[1],
                                !.bidderEmail = who[2], !.amount = amt]
     IN IF validationErrors(amt, who[1], who[2]) # {}
          THEN bids' = [bids EXCEPT ![b] =
                          [req EXCEPT !.pc = "done", !.result = "Validation"]]
        ELSE IF p \notin DOMAIN db
          THEN bids' = [bids EXCEPT ![b] =
                          [req EXCEPT !.pc = "done", !.result = "NotFound"]]
        ELSE /\ Len(db[p].bidHistory) + InFlight(p) < MaxBids
             /\ bids' = [bids EXCEPT ![b] =
                          [req EXCEPT !.pc = "found", !.read = db[p],
                                      !.doc = Load(db[p])]]
  /\ UNCHANGED <<clock, db, jobs, ops>>

(* the route without its own-product check *)
routeChecksNoSelfCheck(d, bidderEmail, now1, now2) ==
  IF ~canBid(d, now1)
    THEN (IF timeRemainingExpired(d, now2) THEN "Ended" ELSE "NotAvailable")
  ELSE "pass"

(* the route with canBid checked before the own-product check *)
routeChecksClosedFirst(d, bidderEmail, now1, now2) ==
  IF ~canBid(d, now1)
    THEN (IF timeRemainingExpired(d, now2) THEN "Ended" ELSE "NotAvailable")
  ELSE IF d.v.userEmail = bidderEmail THEN "SelfBid"
  ELSE "pass"

(* The checks of the route before placeBid: now1 is the clock canBid     *)
(* reads, now2 the clock timeRemaining reads.                             *)
routeChecks(d, bidderEmail, now1, now2) ==
  IF d.v.userEmail = bidderEmail THEN "SelfBid"
  ELSE IF ~canBid(d, now1)
    THEN (IF timeRemainingExpired(d, now2) THEN "Ended" ELSE "NotAvailable")
  ELSE "pass"

(* One synchronous block: the route's checks and placeBid.  The clock may *)
(* advance between its reads: canBid of the route reads clock, then       *)
(* timeRemaining or canBid of placeBid reads t2 (kept as checkedAt), then *)
(* the bid's timestamp reads t3; the last one read is left as the clock.  *)
BidDecide(b) ==
  /\ bids[b].pc = "found"
  /\ \E t2 \in clock..MaxTime, t3 \in clock..MaxTime :
       /\ t2 <= t3
       /\ LET r  == bids[b]
              rc == routeChecks(r.doc, r.bidderEmail, clock, t2)
              pb == placeBid(r.doc, Trim(r.bidder), Trim(r.bidderEmail),
                             r.amount, t2, t3)
          IN IF rc # "pass"
               THEN /\ bids' = [bids EXCEPT ![b].pc = "done", ![b].result = rc,
                          ![b].checkedAt = IF rc = "SelfBid" THEN clock ELSE t2]
                    /\ clock' = IF rc = "SelfBid" THEN clock ELSE t2
             ELSE IF pb.error # "none"
               THEN /\ bids' = [bids EXCEPT ![b].pc = "done",
                                            ![b].result = pb.error,
                                            ![b].minimum = pb.minimum,
                                            ![b].checkedAt = t2]
                    /\ clock' = t2
             ELSE /\ bids' = [bids EXCEPT ![b].pc = "save", ![b].doc = pb.doc,
                                          ![b].checkedAt = t2]
                  /\ clock' = t3
  /\ UNCHANGED <<db, jobs, ops>>

(* save(): validation, then the pre-save hook, on the in-memory copy. A  *)
(* validation error is thrown into the route's inner catch: status 400.   *)
BidPreSave(b) ==
  /\ bids[b].pc = "save"
  /\ \E t2 \in clock..MaxTime :
       LET sv == save(bids[b].doc, clock, t2)
       IN /\ bids' = IF sv.error # "none"
                       THEN [bids EXCEPT ![b].pc = "done",
                                         ![b].result = sv.error]
                     ELSE [bids EXCEPT ![b].pc = "commit", ![b].doc = sv.doc]
          /\ clock' = IF sv.error # "none" THEN clock ELSE t2
  /\ UNCHANGED <<db, jobs, ops>>

(* save(): the update reaches the store. *)
BidCommit(b) ==
  /\ bids[b].pc = "commit"
  /\ db' = [db EXCEPT ![bids[b].product] = Commit(@, bids[b].doc)]
  /\ bids' = [bids EXCEPT ![b].pc = "reread"]
  /\ UNCHANGED <<clock, jobs, ops>>

(* findById again, and the response. *)
BidRespond(b) ==
  /\ bids[b].pc = "reread"
  /\ bids' = [bids EXCEPT ![b].pc = "done", ![b].result = "ok",
                 ![b].newHighestBid = db[bids[b].product].currentPrice]
  /\ UNCHANGED <<clock, db, jobs, ops>>

(* The slot takes the next request. *)
BidReset(b) ==
  /\ bids[b].pc = "done"
  /\ bids' = [bids EXCEPT ![b] = IdleBid]
  /\ UNCHANGED <<clock, db, jobs, ops>>

Tick ==
  /\ clock < MaxTime
  /\ clock' = clock + 1
  /\ UNCHANGED <<db, bids, jobs, ops>>

(* ------------------- settlement job (scheduler, route) ----------------- *)
IdleJob ==
  [pc |-> "idle", variant |-> "none", startedAt |-> 0, expired |-> <<>>,
   queue |-> <<>>,
   docs |-> [p \in Products |-> NoDoc], processed |-> <<>>, failed |-> <<>>,
   log |-> <<>>, result |-> "none"]

(* Product.find({biddingStatus: "active", biddingEndTime: {$lte: now}}), *)
(* and findEndedBiddings, which adds isBidding: true.                     *)
expiredQuery(variant, r, now) ==
  /\ r.biddingStatus = "active"
  /\ r.biddingEndTime # NoTime /\ r.biddingEndTime <= now
  /\ (variant = "route" => r.isBidding)

JobStart(j, variant) ==
  /\ jobs[j].pc = "idle"
  /\ LET found == {p \in Products : expiredQuery(variant, db[p], clock)}
     IN jobs' = [jobs EXCEPT ![j] =
                   [IdleJob EXCEPT !.pc = "loop", !.variant = variant,
                      !.startedAt = clock,
                      !.expired = SelectSeq(ProductOrder, LAMBDA p : p \in found),
                      !.queue = SelectSeq(ProductOrder, LAMBDA p : p \in found),
                      !.docs = [p \in Products |->
                                  IF p \in found THEN Load(db[p]) ELSE NoDoc]]]
  /\ UNCHANGED <<clock, db, bids, ops>>

(* What one pass of the loop body does to the loaded copy d of product p: *)
(* the copy to save (or the error thrown) and the entry it reports.        *)
settleOne(variant, p, d, now) ==
  LET r  == reserveForWinner(d, now)
      d1 == IF Truthy(d.v.bestBidder) THEN r.doc
            ELSE SetPath(d, "biddingStatus", "ended")
      sv == save(d1, now, now)
  IN IF Truthy(d.v.bestBidder) /\ r.error # "none"
       THEN [error |-> r.error, doc |-> d, kind |-> "failed",
             entry |-> [product |-> p, error |-> r.error]]
     ELSE IF sv.error # "none"
       THEN [error |-> sv.error, doc |-> d, kind |-> "failed",
             entry |-> [product |-> p, error |-> sv.error]]
     ELSE IF Truthy(d.v.bestBidder)
       THEN [error |-> "none", doc |-> sv.doc, kind |-> "winner",
             entry |-> IF variant = "scheduler"
               THEN [product |-> p, winner |-> d1.v.bestBidder,
                     winnerEmail |-> d1.v.bestBidderEmail,
                     winningBid |-> d1.v.currentPrice,
                     bidCount |-> bidCount(d1)]
               ELSE [product |-> p, winner |-> d1.v.bestBidder,
                     winnerEmail |-> d1.v.bestBidderEmail,
                     winningBid |-> d1.v.currentPrice]]
     ELSE [error |-> "none", doc |-> sv.doc, kind |-> "nobids",
           entry |-> [product |-> p]]

(* One pass of the loop: the body on the head of the queue and its save. *)
(* The scheduler catches a throw per record; the route has no try in the  *)
(* loop, so a throw ends the request with status 500.                     *)
JobProcess(j) ==
  /\ jobs[j].pc = "loop"
  /\ jobs[j].queue # <<>>
  /\ LET job == jobs[j]
         p   == Head(job.queue)
         s   == settleOne(job.variant, p, job.docs[p], clock)
     IN IF s.error # "none"
          THEN /\ db' = db
               /\ jobs' = [jobs EXCEPT ![j] =
                    IF job.variant = "scheduler"
                      THEN [job EXCEPT !.queue = Tail(@),
                                       !.failed = Append(@, s.entry),
                                       !.log = Append(@, <<p, "failed">>)]
                    ELSE [job EXCEPT !.pc = "done", !.result = "error500"]]
        ELSE /\ db' = [db EXCEPT ![p] = Commit(@, s.doc)]
             /\ jobs' = [jobs EXCEPT ![j] =
                  [job EXCEPT
                     !.queue = Tail(@),
                     !.processed = IF s.kind = "winner"
                                     THEN Append(@, s.entry) ELSE @,
                     !.log = IF job.variant = "scheduler"
                               THEN Append(@, <<p, s.kind>>) ELSE @]]
  /\ UNCHANGED <<clock, bids, ops>>

(* The summary is returned: processed and failed are the list lengths. *)
JobFinish(j) ==
  /\ jobs[j].pc = "loop"
  /\ jobs[j].queue = <<>>
  /\ jobs' = [jobs EXCEPT ![j].pc = "done", ![j].result = "summary"]
  /\ UNCHANGED <<clock, db, bids, ops>>

JobReset(j) ==
  /\ jobs[j].pc = "done"
  /\ jobs' = [jobs EXCEPT ![j] = IdleJob]
  /\ UNCHANGED <<clock, db, bids, ops>>

(* ------------- reserve, notify, purchase and update routes ------------- *)
(* One request of POST /:id/reserve, POST /:id/notify-winner,              *)
(* POST /:id/purchase or one item of POST /purchase/batch: findById, the   *)
(* checks and the changes on the loaded copy, then save().                 *)
Quantities == 0..MaxQuantity

Buyers == {"ana@mail.hr", "bob@mail.hr"}

OpKinds == {"reserve", "notify", "purchase", "batch"}

(* The body of a creation request, as far as the route reads it, and two  *)
(* fields the route does not read.                                         *)
NoBody ==
  [isBidding |-> FALSE, biddingEndTime |-> NoTime, bestBidder |-> Null,
   reservedForWinner |-> FALSE]

(* The answer of the stats operation before any was asked for. *)
NoStats ==
  [stats |-> <<>>, activeBiddings |-> 0, expiredBiddings |-> 0,
   needsProcessing |-> FALSE]

IdleOp ==
  [pc |-> "idle", kind |-> "none", product |-> NoProduct, quantity |-> 0,
   buyer |-> "", read |-> NewRegular, doc |-> NoDoc, loadedAt |-> 0,
   result |-> "none", selected |-> <<>>, notified |-> 0, runs |-> 0,
   body |-> NoBody, stats |-> NoStats]

notifyWinnerRoute(d, now) ==
  IF ~isBiddingEnded(d, now) \/ ~Truthy(d.v.bestBidder)
    THEN [error |-> "NotEndedOrNoWinner", doc |-> d]
  ELSE [error |-> "none", doc |-> SetPath(d, "winnerNotified", TRUE)]

(* a purchase that never marks the record sold *)
purchaseItemKeepsStatus(d, quantity, userEmail) ==
  IF d.v.stock < quantity
    THEN [error |-> "InsufficientStock", doc |-> d]
  ELSE IF d.v.isBidding /\ d.v.biddingStatus = "active"
    THEN [error |-> "OnAuction", doc |-> d]
  ELSE [error |-> "none", doc |-> SetPath(d, "stock", d.v.stock - quantity)]

purchaseItem(d, quantity, userEmail) ==
  IF d.v.stock < quantity
    THEN [error |-> "InsufficientStock", doc |-> d]
  ELSE IF d.v.isBidding /\ d.v.biddingStatus = "active"
    THEN [error |-> "OnAuction", doc |-> d]
  ELSE IF d.v.biddingStatus = "reserved" /\ d.v.bestBidderEmail # userEmail
    THEN [error |-> "ReservedForWinner", doc |-> d]
  ELSE LET d1 == SetPath(d, "stock", d.v.stock - quantity)
       IN [error |-> "none",
           doc |-> IF d1.v.stock = 0
                     THEN SetPath(d1, "biddingStatus", "sold") ELSE d1]

handle(kind, d, quantity, userEmail, now) ==
  CASE kind = "reserve" -> reserveForWinner(d, now)
    [] kind = "notify"  -> notifyWinnerRoute(d, now)
    [] OTHER            -> purchaseItem(d, quantity, userEmail)

(* a request that flags the record in the store before it runs its checks *)
OpLoadFlagsFirst(o, kind, p, quantity, userEmail) ==
  /\ ops[o].pc = "idle"
  /\ LET h   == handle(kind, Load(db[p]), quantity, userEmail, clock)
         req == [IdleOp EXCEPT !.kind = kind, !.product = p,
                               !.quantity = quantity, !.buyer = userEmail,
                               !.read = db[p], !.doc = h.doc,
                               !.loadedAt = clock]
     IN ops' = [ops EXCEPT ![o] =
                  IF h.error # "none"
                    THEN [req EXCEPT !.pc = "done", !.result = h.error]
                  ELSE [req EXCEPT !.pc = "loaded"]]
  /\ db' = IF kind = "reserve"
             THEN [db EXCEPT ![p].reservedForWinner = TRUE] ELSE db
  /\ UNCHANGED <<clock, bids, jobs>>

OpLoad(o, kind, p, quantity, userEmail) ==
  /\ ops[o].pc = "idle"
  /\ LET h   == handle(kind, Load(db[p]), quantity, userEmail, clock)
         req == [IdleOp EXCEPT !.kind = kind, !.product = p,
                               !.quantity = quantity, !.buyer = userEmail,
                               !.read = db[p], !.doc = h.doc,
                               !.loadedAt = clock]
     IN ops' = [ops EXCEPT ![o] =
                  IF h.error # "none"
                    THEN [req EXCEPT !.pc = "done", !.result = h.error]
                  ELSE [req EXCEPT !.pc = "loaded"]]
  /\ UNCHANGED <<clock, db, bids, jobs>>

(* save() of the request: validation, pre-save hook, write. A rejected    *)
(* save is answered 400 by the reserve route, 500 by the other two, and   *)
(* goes to the errors list of a batch.                                    *)
OpSave(o) ==
  /\ ops[o].pc = "loaded"
  /\ LET sv == save(ops[o].doc, clock, clock)
     IN IF sv.error # "none"
          THEN /\ ops' = [ops EXCEPT ![o].pc = "done", ![o].result = sv.error]
               /\ db' = db
        ELSE /\ ops' = [ops EXCEPT ![o].pc = "done", ![o].result = "ok",
                                   ![o].doc = sv.doc]
             /\ db' = [db EXCEPT ![ops[o].product] = Commit(@, sv.doc)]
  /\ UNCHANGED <<clock, bids, jobs>>

OpReset(o) ==
  /\ ops[o].pc = "done"
  /\ ops' = [ops EXCEPT ![o] = IdleOp]
  /\ UNCHANGED <<clock, db, bids, jobs>>

(* notifyWinners of the scheduler: the query, then per selected record    *)
(* winnerNotified = true and save(); there is no catch inside the loop,   *)
(* so a rejected save ends the sweep with {error}.                        *)
(* a query on the reservedForWinner flag *)
notifyQueryByFlag(r) == r.reservedForWinner /\ r.winnerNotified = FALSE

notifyQuery(r) == r.biddingStatus = "reserved" /\ r.winnerNotified = FALSE

RECURSIVE sweepAll(_, _, _)
sweepAll(store, queue, now) ==
  IF queue = <<>> THEN [error |-> "none", db |-> store]
  ELSE LET p  == Head(queue)
           sv == save(SetPath(Load(store[p]), "winnerNotified", TRUE), now, now)
       IN IF sv.error # "none" THEN [error |-> sv.error, db |-> store]
          ELSE sweepAll([store EXCEPT ![p] = Commit(@, sv.doc)], Tail(queue), now)

(* runs counts the sweeps run back to back, as `node scheduler.js notify` *)
(* called again with nothing in between.                                  *)
notifyWinners(o) ==
  /\ \/ ops[o].pc = "idle"
     \/ ops[o].pc = "done" /\ ops[o].kind = "sweep" /\ ops[o].runs < MaxRuns
  /\ LET selected == SelectSeq(ProductOrder, LAMBDA p : notifyQuery(db[p]))
         res      == sweepAll(db, selected, clock)
     IN /\ db' = res.db
        /\ ops' = [ops EXCEPT ![o] =
                     [IdleOp EXCEPT !.pc = "done", !.kind = "sweep",
                        !.selected = selected, !.runs = ops[o].runs + 1,
                        !.result = IF res.error # "none" THEN "error" ELSE "summary",
                        !.notified = IF res.error # "none" THEN 0 ELSE Len(selected)]]
  /\ UNCHANGED <<clock, bids, jobs>>

(* GET /reserved/:userEmail: Product.findReservedForUser. *)
findReservedForUser(userEmail) ==
  { p \in DOMAIN db :
      /\ db[p].bestBidderEmail = userEmail
      /\ db[p].reservedForWinner = TRUE
      /\ db[p].biddingStatus = "ended" }

(* PUT /:id by the owner: the fields the route deletes from the body, and *)
(* findByIdAndUpdate with runValidators (the enum of biddingStatus).      *)
StatusEnum == {"active", "ended", "sold", "cancelled"}

UpdateInputs == { [biddingStatus |-> "cancelled"] }

strippedFields(r) ==
  {"bestBidder", "userEmail"}
  \cup (IF r.isBidding /\ r.biddingStatus = "active" /\ Len(r.bidHistory) > 0
          THEN {"currentPrice", "minimumBidIncrement", "biddingEndTime", "isBidding"}
        ELSE {})

(* The update validators (runValidators) of the paths a body may set:     *)
(* the enum of biddingStatus, min 0.01 of currentPrice, the pattern of     *)
(* bestBidderEmail.                                                        *)
updateValid(kept, updateData) ==
  /\ "biddingStatus" \in kept => updateData.biddingStatus \in StatusEnum
  /\ "currentPrice" \in kept => updateData.currentPrice > 0
  /\ "bestBidderEmail" \in kept =>
       (~Truthy(updateData.bestBidderEmail) \/ EmailOk(updateData.bestBidderEmail))

updateProduct(p, updateData) ==
  /\ p \in DOMAIN db
  /\ LET kept == DOMAIN updateData \ strippedFields(db[p])
     IN db' = IF ~updateValid(kept, updateData)
                THEN db
              ELSE [db EXCEPT ![p] =
                      [f \in DOMAIN @ |->
                         IF f \in kept THEN updateData[f] ELSE @[f]]]
  /\ db' # db
  /\ UNCHANGED <<clock, bids, jobs, ops>>

(* Bodies of PUT /:id that name bid-controlled and price fields. *)
PatchInputs ==
  { [biddingStatus |-> "cancelled"],
    [biddingStatus |-> "reserved"],
    [bidHistory |-> <<>>],
    [bestBidderEmail |-> "bob@mail.hr", bestBidder |-> "Bob"],
    [currentPrice |-> StartPrice, userEmail |-> "bob@mail.hr"] }

(* POST /: the route's validation of an auction's end time, the product    *)
(* data it builds from the fields it reads, and save() of the new          *)
(* document.  MinLead is the hour the route asks for, in ticks.            *)
MinLead == 2

CreateInputs ==
  { [isBidding |-> b, biddingEndTime |-> e, bestBidder |-> w,
     reservedForWinner |-> w # Null] :
      b \in BOOLEAN, e \in {NoTime} \cup Times, w \in {Null, "Mallory"} }

(* a validation that only asks for an end time *)
createErrorsEndOnly(body, now) ==
  IF body.isBidding /\ body.biddingEndTime = NoTime THEN {"endRequired"} ELSE {}

createErrors(body, now) ==
  IF ~body.isBidding THEN {}
  ELSE IF body.biddingEndTime = NoTime THEN {"endRequired"}
  ELSE IF body.biddingEndTime <= now THEN {"endInPast"}
  ELSE IF body.biddingEndTime < now + MinLead THEN {"endTooSoon"}
  ELSE {}

productData(body) ==
  IF body.isBidding
    THEN [NewAuction EXCEPT !.biddingEndTime = body.biddingEndTime]
  ELSE NewRegular

createProduct(o, p, body) ==
  /\ ops[o].pc = "idle"
  /\ p \notin DOMAIN db
  /\ LET req == [IdleOp EXCEPT !.kind = "create", !.product = p,
                               !.body = body, !.loadedAt = clock]
         sv  == save(Load(productData(body)), clock, clock)
     IN IF createErrors(body, clock) # {}
          THEN /\ ops' = [ops EXCEPT ![o] =
                            [req EXCEPT !.pc = "done", !.result = "Validation"]]
               /\ db' = db
        ELSE IF sv.error # "none"
          THEN /\ ops' = [ops EXCEPT ![o] =
                            [req EXCEPT !.pc = "done", !.result = sv.error]]
               /\ db' = db
        ELSE /\ ops' = [ops EXCEPT ![o] =
                          [req EXCEPT !.pc = "done", !.result = "created",
                                      !.doc = sv.doc]]
             /\ db' = [q \in DOMAIN db \cup {p} |->
                         IF q = p THEN sv.doc.v ELSE db[q]]
  /\ UNCHANGED <<clock, bids, jobs>>

(* DELETE /:id: findById, product.isBiddingActive(), findByIdAndDelete.   *)
(* The instance methods the schema defines:                                *)
ProductMethods ==
  {"canBid", "placeBid", "isBiddingEnded", "getWinner", "reserveForWinner"}

(* A call of a method the document does not have throws a TypeError, which *)
(* the route's catch answers with status 500.                              *)
deleteProduct(o, p) ==
  /\ ops[o].pc = "idle"
  /\ LET req == [IdleOp EXCEPT !.kind = "delete", !.product = p,
                               !.loadedAt = clock]
     IN IF p \notin DOMAIN db
          THEN /\ ops' = [ops EXCEPT ![o] =
                            [req EXCEPT !.pc = "done", !.result = "NotFound"]]
               /\ db' = db
        ELSE IF "isBiddingActive" \notin ProductMethods
          THEN /\ ops' = [ops EXCEPT ![o] =
                            [req EXCEPT !.pc = "done", !.read = db[p],
                                        !.result = "error500"]]
               /\ db' = db
        ELSE \E active \in BOOLEAN :
               IF active
                 THEN /\ ops' = [ops EXCEPT ![o] =
                                   [req EXCEPT !.pc = "done", !.read = db[p],
                                               !.result = "ActiveBidding"]]
                      /\ db' = db
               ELSE /\ ops' = [ops EXCEPT ![o] =
                                 [req EXCEPT !.pc = "done", !.read = db[p],
                                             !.result = "deleted"]]
                    /\ db' = [q \in DOMAIN db \ {p} |-> db[q]]
  /\ UNCHANGED <<clock, bids, jobs>>

(* getBiddingStats and GET /bidding/status: an aggregation over the       *)
(* stored documents, grouped by biddingStatus, and two counts.  $sum adds *)
(* the values of a stored field and takes a document without the field as *)
(* 0; a virtual of the schema is not a stored field.  (The average price  *)
(* of a group is left out.)                                                *)
StoredFields == DOMAIN NewAuction

StoredNumber(r, f) == IF f \in StoredFields THEN r[f] ELSE 0

RECURSIVE SumField(_, _)
SumField(S, f) ==
  IF S = {} THEN 0
  ELSE LET p == CHOOSE q \in S : TRUE
       IN StoredNumber(db[p], f) + SumField(S \ {p}, f)

getBiddingStats(now) ==
  LET group(s) == {p \in DOMAIN db : db[p].biddingStatus = s}
      expired  == {p \in DOMAIN db :
                     /\ db[p].biddingStatus = "active"
                     /\ db[p].biddingEndTime # NoTime
                     /\ db[p].biddingEndTime <= now}
      active   == {p \in DOMAIN db :
                     /\ db[p].biddingStatus = "active"
                     /\ db[p].biddingEndTime # NoTime
                     /\ db[p].biddingEndTime > now}
  IN [stats |-> [s \in {db[p].biddingStatus : p \in DOMAIN db} |->
                   [count |-> Cardinality(group(s)),
                    totalBids |-> SumField(group(s), "bidCount")]],
      activeBiddings |-> Cardinality(active),
      expiredBiddings |-> Cardinality(expired),
      needsProcessing |-> Cardinality(expired) > 0]

Stats(o) ==
  /\ ops[o].pc = "idle"
  /\ ops' = [ops EXCEPT ![o] =
               [IdleOp EXCEPT !.pc = "done", !.kind = "stats",
                              !.loadedAt = clock, !.result = "ok",
                              !.stats = getBiddingStats(clock)]]
  /\ UNCHANGED <<clock, db, bids, jobs>>

(* --------------------------- specifications --------------------------- *)
(* Spec: one bid request and one settlement run at a time, in any         *)
(* interleaving, on an auction p1 that takes the bids and a second record *)
(* p2 that never gets one.                                                *)
(* Records the routes can have stored: a fresh auction, an auction whose  *)
(* owner set its stock to 0 or cancelled it (PUT /:id), a regular listing.*)
InitRecords ==
  { NewAuction, [NewAuction EXCEPT !.stock = 0],
    [NewAuction EXCEPT !.biddingStatus = "cancelled"], NewRegular }

Variants == {"scheduler", "route"}

Init ==
  /\ clock = 0
  /\ db \in [Products -> InitRecords]
  /\ db["p2"] \in {NewAuction, NewRegular}
  /\ bids = [b \in {"b1"} |-> IdleBid]
  /\ jobs = [j \in {"j1"} |-> IdleJob]
  /\ ops = [o \in {"o1"} |-> IdleOp]

Next ==
  \/ Tick
  \/ \E b \in DOMAIN bids, p \in {"p1", GhostId}, who \in BidInputs,
        amt \in Amounts : BidRequest(b, p, who, amt)
  \/ \E b \in DOMAIN bids : BidDecide(b)
  \/ \E b \in DOMAIN bids : BidPreSave(b)
  \/ \E b \in DOMAIN bids : BidCommit(b)
  \/ \E b \in DOMAIN bids : BidRespond(b)
  \/ \E b \in DOMAIN bids : BidReset(b)
  \/ \E j \in DOMAIN jobs, variant \in Variants : JobStart(j, variant)
  \/ \E j \in DOMAIN jobs : JobProcess(j)
  \/ \E j \in DOMAIN jobs : JobFinish(j)
  \/ \E j \in DOMAIN jobs : JobReset(j)

Spec == Init /\ [][Next]_vars

(* Two bid requests in flight on one auction. *)
InitRace ==
  /\ clock = 0
  /\ db = [p \in Products |-> IF p = "p1" THEN NewAuction ELSE NewRegular]
  /\ bids = [b \in {"b1", "b2"} |-> IdleBid]
  /\ jobs = [j \in {"j1"} |-> IdleJob]
  /\ ops = [o \in {"o1"} |-> IdleOp]

NextRace ==
  \/ Tick
  \/ \E b \in DOMAIN bids, who \in RaceInputs, amt \in Amounts \ {0} :
        BidRequest(b, "p1", who, amt)
  \/ \E b \in DOMAIN bids : BidDecide(b)
  \/ \E b \in DOMAIN bids : BidPreSave(b)
  \/ \E b \in DOMAIN bids : BidCommit(b)
  \/ \E b \in DOMAIN bids : BidRespond(b)
  \/ \E b \in DOMAIN bids : BidReset(b)

SpecRace == InitRace /\ [][NextRace]_vars

(* The routes and the job serving one request at a time, in any order,    *)
(* on the auction p1 and the regular listing p2; the owner may cancel the *)
(* auction.                                                               *)
InitOps ==
  /\ clock = 0
  /\ db = [p \in Products |-> IF p = "p1" THEN NewAuction ELSE NewRegular]
  /\ bids = [b \in {"b1"} |-> IdleBid]
  /\ jobs = [j \in {"j1"} |-> IdleJob]
  /\ ops = [o \in {"o1"} |-> IdleOp]

(* No request is being served. *)
Quiet ==
  /\ \A b \in DOMAIN bids : bids[b].pc = "idle"
  /\ \A j \in DOMAIN jobs : jobs[j].pc = "idle"
  /\ \A o \in DOMAIN ops : ops[o].pc = "idle"

NextOps ==
  \/ Tick
  \/ \E b \in DOMAIN bids, who \in RaceInputs, amt \in Amounts \ {0} :
        Quiet /\ BidRequest(b, "p1", who, amt)
  \/ \E b \in DOMAIN bids : BidDecide(b)
  \/ \E b \in DOMAIN bids : BidPreSave(b)
  \/ \E b \in DOMAIN bids : BidCommit(b)
  \/ \E b \in DOMAIN bids : BidRespond(b)
  \/ \E b \in DOMAIN bids : BidReset(b)
  \/ \E j \in DOMAIN jobs, variant \in Variants : Quiet /\ JobStart(j, variant)
  \/ \E j \in DOMAIN jobs : JobProcess(j)
  \/ \E j \in DOMAIN jobs : JobFinish(j)
  \/ \E j \in DOMAIN jobs : JobReset(j)
  \/ \E o \in DOMAIN ops, kind \in OpKinds, p \in Products,
        quantity \in Quantities, userEmail \in Buyers :
        Quiet /\ OpLoad(o, kind, p, quantity, userEmail)
  \/ \E o \in DOMAIN ops : OpSave(o)
  \/ \E o \in DOMAIN ops : OpReset(o)
  \/ \E o \in DOMAIN ops : Quiet /\ notifyWinners(o)
  \/ \E o \in DOMAIN ops : ops[o].pc = "done" /\ notifyWinners(o)
  \/ \E p \in Products, updateData \in UpdateInputs :
        Quiet /\ updateProduct(p, updateData)

SpecOps == InitOps /\ [][NextOps]_vars

(* The owner's requests -- create, update, delete -- and bids, one request *)
(* at a time, on the auction p1; p2 is created by a request.               *)
InitAdmin ==
  /\ clock = 0
  /\ db = [p \in {"p1"} |-> NewAuction]
  /\ bids = [b \in {"b1"} |-> IdleBid]
  /\ jobs = [j \in {"j1"} |-> IdleJob]
  /\ ops = [o \in {"o1"} |-> IdleOp]

NextAdmin ==
  \/ Tick
  \/ \E b \in DOMAIN bids, who \in RaceInputs, amt \in Amounts \ {0} :
        Quiet /\ BidRequest(b, "p1", who, amt)
  \/ \E b \in DOMAIN bids : BidDecide(b)
  \/ \E b \in DOMAIN bids : BidPreSave(b)
  \/ \E b \in DOMAIN bids : BidCommit(b)
  \/ \E b \in DOMAIN bids : BidRespond(b)
  \/ \E b \in DOMAIN bids : BidReset(b)
  \/ \E o \in DOMAIN ops, body \in CreateInputs :
        Quiet /\ createProduct(o, "p2", body)
  \/ \E o \in DOMAIN ops, p \in Products : Quiet /\ deleteProduct(o, p)
  \/ \E o \in DOMAIN ops : OpReset(o)
  \/ \E updateData \in PatchInputs : Quiet /\ updateProduct("p1", updateData)
  \/ \E o \in DOMAIN ops : Quiet /\ Stats(o)

SpecAdmin == InitAdmin /\ [][NextAdmin]_vars

(* The methods and the hook of the document on every record the update    *)
(* route can leave in the store: any combination of the auction flag, the *)
(* stock, a status of the enum, an end time or none, a bestBidder or      *)
(* none, and the reservation flag.  The bid, reserve and notify routes    *)
(* call them.                                                              *)
AnyRecords ==
  { [NewAuction EXCEPT !.isBidding = a, !.stock = n, !.biddingStatus = s,
                       !.biddingEndTime = e, !.bestBidder = w,
                       !.bestBidderEmail = IF w = Null THEN Null ELSE "ana@mail.hr",
                       !.reservedForWinner = f] :
      a \in BOOLEAN, n \in 0..1, s \in StatusEnum, e \in {NoTime, EndTime},
      w \in {Null, "Ana"}, f \in BOOLEAN }

InitMethods ==
  /\ clock = 0
  /\ db \in [Products -> AnyRecords]
  /\ db["p2"] = NewRegular
  /\ bids = [b \in {"b1"} |-> IdleBid]
  /\ jobs = [j \in {"j1"} |-> IdleJob]
  /\ ops = [o \in {"o1"} |-> IdleOp]

NextMethods ==
  \/ Tick
  \/ \E b \in DOMAIN bids, who \in RaceInputs :
        Quiet /\ BidRequest(b, "p1", who, StartPrice + Increment)
  \/ \E b \in DOMAIN bids : BidDecide(b)
  \/ \E b \in DOMAIN bids : BidPreSave(b)
  \/ \E b \in DOMAIN bids : BidCommit(b)
  \/ \E b \in DOMAIN bids : BidRespond(b)
  \/ \E b \in DOMAIN bids : BidReset(b)
  \/ \E o \in DOMAIN ops, kind \in {"reserve", "notify"}, p \in Products :
        Quiet /\ OpLoad(o, kind, p, 0, "ana@mail.hr")
  \/ \E o \in DOMAIN ops : OpSave(o)
  \/ \E o \in DOMAIN ops : OpReset(o)

SpecMethods == InitMethods /\ [][NextMethods]_vars

(* The settlement job run again and again, as from cron, while time       *)
(* passes: every run that is started goes through its loop and returns,   *)
(* and a new run is started after it.                                      *)
JobsNext ==
  \/ \E j \in DOMAIN jobs, variant \in Variants : JobStart(j, variant)
  \/ \E j \in DOMAIN jobs : JobProcess(j)
  \/ \E j \in DOMAIN jobs : JobFinish(j)
  \/ \E j \in DOMAIN jobs : JobReset(j)

NextLive == Tick \/ JobsNext

SpecLive ==
  Init /\ [][NextLive]_vars /\ WF_vars(Tick) /\ WF_vars(JobsNext)

(* Two runs of the settlement job at once (the cron run and a request to  *)
(* the route, or two of either), over an auction that takes bids until    *)
(* its end.                                                                *)
InitJobs ==
  /\ clock = 0
  /\ db = [p \in Products |-> IF p = "p1" THEN NewAuction ELSE NewRegular]
  /\ bids = [b \in {"b1"} |-> IdleBid]
  /\ jobs = [j \in {"j1", "j2"} |-> IdleJob]
  /\ ops = [o \in {"o1"} |-> IdleOp]

NextJobs ==
  \/ Tick
  \/ \E b \in DOMAIN bids, who \in RaceInputs :
        BidRequest(b, "p1", who, StartPrice + Increment)
  \/ \E b \in DOMAIN bids : BidDecide(b)
  \/ \E b \in DOMAIN bids : BidPreSave(b)
  \/ \E b \in DOMAIN bids : BidCommit(b)
  \/ \E b \in DOMAIN bids : BidRespond(b)
  \/ \E b \in DOMAIN bids : BidReset(b)
  \/ JobsNext

SpecJobs == InitJobs /\ [][NextJobs]_vars

(* Two purchase requests, single or items of a batch, in flight at once   *)
(* on the regular listing p2.  The quantity is whatever number the body   *)
(* carries: the routes read it without a check of its sign.               *)
BodyQuantities == (0 - 1)..MaxQuantity

InitBuy ==
  /\ clock = 0
  /\ db = [p \in Products |-> IF p = "p1" THEN NewAuction ELSE NewRegular]
  /\ bids = [b \in {"b1"} |-> IdleBid]
  /\ jobs = [j \in {"j1"} |-> IdleJob]
  /\ ops = [o \in {"o1", "o2"} |-> IdleOp]

NextBuy ==
  \/ \E o \in DOMAIN ops, kind \in {"purchase", "batch"},
        quantity \in BodyQuantities, userEmail \in Buyers :
        OpLoad(o, kind, "p2", quantity, userEmail)
  \/ \E o \in DOMAIN ops : OpSave(o)

SpecBuy == InitBuy /\ [][NextBuy]_vars

(* ------------------------------- claims ------------------------------- *)
Accepted(r) == r.pc = "done" /\ r.result = "ok"

(* C1 (as claimed): two bid requests that read the same record are not    *)
(* both accepted against its stale price -- the later write is decided    *)
(* against the refreshed price -- so once both have finished, the two     *)
(* amounts differ by at least the increment, currentPrice is the higher   *)
(* amount and bestBidder is its bidder.                                   *)
C1_StaleBidsSettleOnHighest ==
  \A a, b \in DOMAIN bids :
    ( /\ a # b
      /\ Accepted(bids[a]) /\ Accepted(bids[b])
      /\ bids[a].product = bids[b].product
      /\ bids[a].read = bids[b].read
      /\ bids[a].amount >= bids[b].amount )
    => /\ bids[a].amount >= bids[b].amount + bids[b].read.minimumBidIncrement
       /\ db[bids[a].product].currentPrice = bids[a].amount
       /\ db[bids[a].product].bestBidder = Trim(bids[a].bidder)

(* C2 (as claimed): a bid whose write reaches the store after settlement  *)
(* has moved the record out of active changes nothing in the record.      *)
C2_LateBidChangesNothing ==
  [][\A b \in DOMAIN bids :
       ( /\ bids[b].pc = "commit" /\ bids'[b].pc = "reread"
         /\ db[bids[b].product].biddingStatus # "active" )
       => db'[bids[b].product] = db[bids[b].product]]_vars

(* C3 (as claimed): no step lowers a record's currentPrice, and every     *)
(* step that appends a bid to the history raises it strictly.             *)
C3_PriceNeverDecreases ==
  [][\A p \in Products :
       /\ db'[p].currentPrice >= db[p].currentPrice
       /\ Len(db'[p].bidHistory) > Len(db[p].bidHistory)
            => db'[p].currentPrice > db[p].currentPrice]_vars

(* A request the route has decided: it went past validation and findById. *)
Decided(r) ==
  \/ r.pc \in {"save", "commit", "reread"}
  \/ r.pc = "done" /\ r.result \notin {"Validation", "NotFound"}

Placed(r) == r.pc \in {"save", "commit", "reread"} \/ Accepted(r)

(* placeBid went through and save() then rejected the document. *)
SaveRejected(r) == r.pc = "done" /\ r.result = "ValidationError"

Rejections == {"SelfBid", "Ended", "NotAvailable", "BiddingNotAvailable", "BidTooLow"}

LowBid(r) == r.amount < r.read.currentPrice + r.read.minimumBidIncrement

IsOwner(r) == r.bidderEmail = r.read.userEmail

(* The record as loaded is open for bids whatever the time. *)
OpenRecord(r) ==
  r.read.isBidding /\ r.read.stock > 0 /\ r.read.biddingStatus = "active"

ExpiredAt(r, t) == r.read.biddingEndTime # NoTime /\ t >= r.read.biddingEndTime

(* C4: a bid with amount < currentPrice + minimumBidIncrement of the      *)
(* record it was decided on is never accepted, whatever the number of     *)
(* prior bids; when it gets as far as the amount check (not the owner,    *)
(* record open and not expired) the failure is BidTooLow, and BidTooLow   *)
(* reports the minimum currentPrice + minimumBidIncrement.                *)
C4_LowBidRejected ==
  \A b \in DOMAIN bids :
    LET r == bids[b] IN
    (Decided(r) /\ LowBid(r)) =>
      /\ r.pc = "done"
      /\ r.result \in Rejections
      /\ r.result = "BidTooLow" =>
           r.minimum = r.read.currentPrice + r.read.minimumBidIncrement
      /\ (~IsOwner(r) /\ OpenRecord(r) /\ ~ExpiredAt(r, clock))
           => r.result = "BidTooLow"

(* A bid above the price but below the minimum, on a record that already  *)
(* has a bid, was rejected with BidTooLow and the minimum.                *)
C4_Witness ==
  \E b \in DOMAIN bids :
    LET r == bids[b] IN
    /\ r.pc = "done" /\ r.result = "BidTooLow"
    /\ Len(r.read.bidHistory) >= 1
    /\ r.amount > r.read.currentPrice
    /\ r.minimum = r.read.currentPrice + r.read.minimumBidIncrement

(* The entry a placed bid pushes. *)
BidEntry(r) == r.doc.pushed[1]

(* C5: a bid that passes all preconditions is accepted (a rejected one    *)
(* failed one of them, or the end time had passed when it was saved), and *)
(* an accepted bid has exactly this effect: the                           *)
(* in-memory record differs from the loaded one by one appended entry     *)
(* {bidder, bidderEmail, amount, now}, currentPrice = amount, bestBidder  *)
(* and bestBidderEmail = the bidder's; its write appends that entry to    *)
(* the stored history (bidCount + 1) and stores the three fields.         *)
C5_AcceptedBidEffect ==
  /\ [](\A b \in DOMAIN bids :
          LET r == bids[b] IN
          /\ (r.pc = "done" /\ r.result \in Rejections) =>
               \/ IsOwner(r) \/ ~OpenRecord(r) \/ ExpiredAt(r, r.checkedAt)
               \/ LowBid(r)
          /\ SaveRejected(r) => ExpiredAt(r, clock)
          /\ r.pc = "save" =>
               /\ Len(r.doc.pushed) = 1
               /\ BidEntry(r).bidder = Trim(r.bidder)
               /\ BidEntry(r).bidderEmail = r.bidderEmail
               /\ BidEntry(r).amount = r.amount
               /\ BidEntry(r).timestamp \in r.checkedAt..clock
               /\ r.doc.v = [r.read EXCEPT
                               !.bidHistory = Append(@, BidEntry(r)),
                               !.currentPrice = r.amount,
                               !.bestBidder = Trim(r.bidder),
                               !.bestBidderEmail = r.bidderEmail]
               /\ r.doc.mod \subseteq
                    {"currentPrice", "bestBidder", "bestBidderEmail"})
  /\ [][\A b \in DOMAIN bids :
          LET r == bids[b]
              p == r.product
          IN (r.pc = "commit" /\ bids'[b].pc = "reread") =>
               /\ db'[p].bidHistory = Append(db[p].bidHistory, BidEntry(r))
               /\ Len(db'[p].bidHistory) = Len(db[p].bidHistory) + 1
               /\ db'[p].currentPrice = r.amount
               /\ db'[p].bestBidder = Trim(r.bidder)
               /\ db'[p].bestBidderEmail = r.bidderEmail]_vars

(* A first bid of exactly currentPrice + minimumBidIncrement was accepted *)
(* and stored: the price is the amount and bidCount is 1.                 *)
C5_Witness ==
  \E b \in DOMAIN bids :
    LET r == bids[b] IN
    /\ Accepted(r)
    /\ r.read.bidHistory = <<>>
    /\ r.amount = r.read.currentPrice + r.read.minimumBidIncrement
    /\ db[r.product].currentPrice = r.amount
    /\ Len(db[r.product].bidHistory) = 1
    /\ db[r.product].bestBidder = Trim(r.bidder)
    /\ db[r.product].bestBidderEmail = r.bidderEmail

C7_ResolvedAlwaysClosed ==
  \A b \in DOMAIN bids :
    LET r == bids[b] IN
    (Decided(r) /\ r.read.biddingStatus = "ended")
      => (r.pc = "done" /\ r.result = "Ended")

(* C7 (amended): a bid is placed only on a record that is auction-        *)
(* enabled, has stock > 0, has status active and is not past its end      *)
(* time when placeBid checks; every bid attempt on a resolved (ended)     *)
(* record fails: with AuctionClosed, or with the own-product failure when *)
(* the bidder is the owner, whose check comes first.                      *)
C7_BidsOnlyWhileOpen ==
  \A b \in DOMAIN bids :
    LET r == bids[b] IN
    /\ Placed(r) => (OpenRecord(r) /\ ~ExpiredAt(r, r.checkedAt))
    /\ (Decided(r) /\ r.read.biddingStatus = "ended") =>
         /\ r.pc = "done"
         /\ r.result = IF IsOwner(r) THEN "SelfBid" ELSE "Ended"

(* A bid on a record that had ended, reserved for Ana, failed as closed.  *)
C7_Witness ==
  \E b \in DOMAIN bids :
    LET r == bids[b] IN
    /\ r.pc = "done" /\ r.result = "Ended"
    /\ r.read.biddingStatus = "ended" /\ r.read.reservedForWinner
    /\ r.read.bestBidder = "Ana" /\ ~LowBid(r)

(* C8 (as claimed): the not-biddable and closed checks come before the    *)
(* own-product check, so a bid on a record that is not auction-enabled,   *)
(* out of stock or not active reports one of those failures.              *)
C8_SpecOrder ==
  \A b \in DOMAIN bids :
    LET r == bids[b] IN
    (Decided(r) /\ ~OpenRecord(r)) =>
      r.result \in {"Ended", "NotAvailable", "BiddingNotAvailable"}

(* C8 (amended): the first failing check is reported, in this order:      *)
(* own-product (bidderEmail = owner's email); then canBid (not auction-   *)
(* enabled, stock <= 0, status not active, past the end time), reported   *)
(* as "ended" when the end time has passed and as "not available"         *)
(* otherwise; then the amount check BidTooLow; a bid that fails none is   *)
(* placed and saved.                                                      *)
C8_CodeOrder ==
  \A b \in DOMAIN bids :
    LET r == bids[b]
        expired == r.read.isBidding /\ ExpiredAt(r, r.checkedAt)
    IN Decided(r) =>
         IF IsOwner(r) THEN r.result = "SelfBid"
         ELSE IF ~OpenRecord(r)
           THEN r.result = IF expired THEN "Ended" ELSE "NotAvailable"
         ELSE IF expired
           THEN r.result \in {"Ended", "BiddingNotAvailable"}
         ELSE IF LowBid(r) THEN r.result = "BidTooLow"
         ELSE Placed(r) \/ SaveRejected(r)

(* The owner's bid, too low as well, on an out-of-stock auction was       *)
(* rejected as a bid on the own product.                                  *)
C8_Witness ==
  \E b \in DOMAIN bids :
    LET r == bids[b] IN
    /\ r.pc = "done" /\ r.result = "SelfBid"
    /\ r.read.isBidding /\ r.read.stock = 0 /\ LowBid(r)

InList(list, p) == \E k \in 1..Len(list) : list[k].product = p

Summarised(j) == jobs[j].pc = "done" /\ jobs[j].result = "summary"

(* The job's loop body runs on the head of its queue. *)
JobStep(j) == jobs[j].pc = "loop" /\ jobs[j].queue # <<>> /\ jobs'[j] # jobs[j]

(* C9 (as claimed): a record that is auction-enabled, active, past its    *)
(* end time and                                                           *)
(* has a bestBidder is selected by a job run; the run's step on it leaves *)
(* it with status ended and reservedForWinner = true, bestBidder,         *)
(* bestBidderEmail and currentPrice as they were; and it is ended and     *)
(* reserved when the run returns.                                         *)
C9_WinnerReserved ==
  /\ [](\A j \in DOMAIN jobs :
          Summarised(j) =>
            \A i \in 1..Len(jobs[j].expired) :
              LET p == jobs[j].expired[i] IN
              (jobs[j].docs[p].v.isBidding /\ Truthy(jobs[j].docs[p].v.bestBidder))
                => /\ db[p].biddingStatus = "ended"
                   /\ db[p].reservedForWinner = TRUE)
  /\ [][\A j \in DOMAIN jobs :
          (jobs[j].pc = "idle" /\ jobs'[j].pc = "loop") =>
            \A p \in Products :
              ( /\ db[p].isBidding /\ db[p].biddingStatus = "active"
                /\ db[p].biddingEndTime # NoTime
                /\ db[p].biddingEndTime <= clock
                /\ Truthy(db[p].bestBidder) )
              => \E i \in 1..Len(jobs'[j].expired) : jobs'[j].expired[i] = p]_vars
  /\ [][\A j \in DOMAIN jobs :
          JobStep(j) =>
            LET p == Head(jobs[j].queue) IN
            (jobs[j].docs[p].v.isBidding /\ Truthy(jobs[j].docs[p].v.bestBidder))
              => /\ db'[p].biddingStatus = "ended"
                 /\ db'[p].reservedForWinner = TRUE
                 /\ db'[p].bestBidder = db[p].bestBidder
                 /\ db'[p].bestBidderEmail = db[p].bestBidderEmail
                 /\ db'[p].currentPrice = db[p].currentPrice
                 /\ db'[p].bidHistory = db[p].bidHistory]_vars

NoBids(r) == r.isBidding /\ r.bidHistory = <<>> /\ ~Truthy(r.bestBidder)

(* C10 (as claimed): a record that is auction-enabled, active, past its   *)
(* end time and without any bid has status ended, reservedForWinner false *)
(* and bestBidder null when the run that selected it returns, and the run *)
(* reports it as a no-bids outcome.                                       *)
C10_NoBidsEnded ==
  \A j \in DOMAIN jobs :
    Summarised(j) =>
      \A i \in 1..Len(jobs[j].expired) :
        LET p == jobs[j].expired[i] IN
        (NoBids(jobs[j].docs[p].v) /\ NoBids(db[p]))
          => /\ db[p].biddingStatus = "ended"
             /\ db[p].reservedForWinner = FALSE
             /\ db[p].bestBidder = Null
             /\ \/ InList(jobs[j].processed, p)
                \/ \E k \in 1..Len(jobs[j].log) : jobs[j].log[k] = <<p, "nobids">>

NoBidInFlight == \A b \in DOMAIN bids : bids[b].pc \in {"idle", "done"}

(* C11 (as claimed): when a run has returned and no bid is in flight,     *)
(* none of the records it selected is still active and expired, so a      *)
(* second run right after it finds none of them and has nothing to do.    *)
C11_SecondRunFindsNothing ==
  \A j \in DOMAIN jobs :
    (Summarised(j) /\ NoBidInFlight) =>
      \A i \in 1..Len(jobs[j].expired) :
        ~expiredQuery(jobs[j].variant, db[jobs[j].expired[i]], clock)

(* C12 (as claimed): a record a run selected carries exactly one of the   *)
(* two resolutions when the run returns (ended and reserved with its      *)
(* winner, or ended without one), and a resolution is never changed.      *)
C12_ResolvedExactlyOnce ==
  /\ [](\A j \in DOMAIN jobs :
          (Summarised(j) /\ NoBidInFlight) =>
            \A i \in 1..Len(jobs[j].expired) :
              LET r == db[jobs[j].expired[i]] IN
              r.isBidding =>
                /\ r.biddingStatus = "ended"
                /\ r.reservedForWinner <=> Truthy(r.bestBidder))
  /\ [][\A p \in Products :
          db[p].biddingStatus = "ended" =>
            /\ db'[p].biddingStatus = "ended"
            /\ db'[p].reservedForWinner = db[p].reservedForWinner]_vars

(* C13 (as claimed): whatever happens on a record, the run goes on to the *)
(* next record of its queue, and a run that ends returns its summary.     *)
C13_FailureNeverAborts ==
  /\ [](\A j \in DOMAIN jobs :
          jobs[j].pc = "done" =>
            (jobs[j].result = "summary" /\ jobs[j].queue = <<>>))
  /\ [][\A j \in DOMAIN jobs :
          JobStep(j) =>
            /\ jobs'[j].pc = "loop"
            /\ jobs'[j].queue = Tail(jobs[j].queue)]_vars

ReserveOp(x) == x.kind = "reserve" /\ x.pc # "idle"

(* Bidding on the loaded record has ended at time t. *)
EndedAt(r, t) ==
  /\ r.isBidding
  /\ \/ r.biddingStatus \in {"ended", "sold"}
     \/ r.biddingEndTime # NoTime /\ t >= r.biddingEndTime

(* C14: the reserve operation fails with the cannot-reserve error exactly *)
(* when the record it loaded has no bestBidder or its bidding has not     *)
(* ended; otherwise reserveForWinner sets reservedForWinner and status    *)
(* ended on the copy, and a reserve answered with success has stored      *)
(* them.                                                                  *)
C14_ReserveNeedsEndedWinner ==
  \A o \in DOMAIN ops :
    LET x == ops[o] IN
    ReserveOp(x) =>
      /\ x.result = "CannotReserve" <=>
           ~(EndedAt(x.read, x.loadedAt) /\ Truthy(x.read.bestBidder))
      /\ x.result # "CannotReserve" =>
           /\ x.doc.v.reservedForWinner = TRUE
           /\ x.doc.v.biddingStatus = "ended"
           /\ x.result \in {"none", "ok", "ValidationError"}
      /\ x.result = "ok" =>
           /\ db[x.product].reservedForWinner = TRUE
           /\ db[x.product].biddingStatus = "ended"
           /\ db[x.product].bestBidder = x.read.bestBidder

(* A reserve of an ended auction won by Ana succeeded. *)
C14_Witness ==
  \E o \in DOMAIN ops :
    /\ ReserveOp(ops[o]) /\ ops[o].result = "ok"
    /\ ops[o].read.bestBidder = "Ana" /\ ~ops[o].read.reservedForWinner
    /\ db[ops[o].product].reservedForWinner

ReservedWithWinner(r) ==
  r.reservedForWinner =>
    (Truthy(r.bestBidder) /\ r.biddingStatus \in {"ended", "reserved"})

(* C15 (as claimed): reservedForWinner = true implies a bestBidder and    *)
(* status ended or reserved in every record a bid, a settlement run, a    *)
(* reserve, a notify or a purchase stores: none of their steps takes a    *)
(* record for which the implication holds to one for which it fails.      *)
C15_ReservedImpliesWinner ==
  [][\A p \in Products :
       (ReservedWithWinner(db[p]) /\ <<bids, jobs, ops>>' # <<bids, jobs, ops>>)
         => ReservedWithWinner(db'[p])]_vars

SweepDone(x) == x.kind = "sweep" /\ x.pc = "done"

AwaitsNotice(r) ==
  /\ r.reservedForWinner /\ r.biddingStatus \in {"ended", "reserved"}
  /\ r.winnerNotified = FALSE

(* C16 (as claimed): when a sweep of the Notification Stage has returned, *)
(* no record is left reserved for a winner with winnerNotified = false.   *)
C16_SweepNotifiesReserved ==
  \A o \in DOMAIN ops :
    SweepDone(ops[o]) => \A p \in Products : ~AwaitsNotice(db[p])

C18_UnnotifiedIsRetried ==
  \A o \in DOMAIN ops :
    (SweepDone(ops[o]) /\ ops[o].runs >= 2) =>
      \A p \in Products :
        AwaitsNotice(db[p]) =>
          \E i \in 1..Len(ops[o].selected) : ops[o].selected[i] = p


PurchaseSaved(o, p) ==
  /\ ops[o].kind \in {"purchase", "batch"} /\ ops[o].product = p
  /\ ops[o].pc = "loaded" /\ ops'[o].pc = "done" /\ ops'[o].result = "ok"

(* C19: of the steps of bids, settlement runs, reserve, notify, sweeps,   *)
(* purchases and the owner's cancel, only the save of a purchase changes  *)
(* a record's stock, taking the purchased quantity from it; and a         *)
(* purchase that leaves stock 0 stores status sold, whatever the record's *)
(* auction fields.                                                        *)
C19_StockOnlyByPurchase ==
  [][\A p \in Products :
       /\ db'[p].stock # db[p].stock =>
            \E o \in DOMAIN ops :
              /\ PurchaseSaved(o, p)
              /\ db'[p].stock = db[p].stock - ops[o].quantity
       /\ \A o \in DOMAIN ops :
            (PurchaseSaved(o, p) /\ db'[p].stock = 0)
              => db'[p].biddingStatus = "sold"]_vars

(* The last unit of a cancelled auction with a bestBidder was bought: the *)
(* stock is 0 and the status sold.                                        *)
C19_Witness ==
  \E o \in DOMAIN ops :
    /\ ops[o].kind \in {"purchase", "batch"} /\ ops[o].result = "ok"
    /\ ops[o].quantity = 1 /\ ops[o].product = "p1"
    /\ ops[o].read.biddingStatus = "cancelled" /\ Truthy(ops[o].read.bestBidder)
    /\ db["p1"].stock = 0 /\ db["p1"].biddingStatus = "sold"

(* C20 (as claimed): no step of a bid, a settlement run, a reserve, a     *)
(* notify or a purchase changes the status of a record that is sold.      *)
C20_SoldIsTerminal ==
  [][\A p \in Products :
       (db[p].biddingStatus = "sold" /\ <<bids, jobs, ops>>' # <<bids, jobs, ops>>)
         => db'[p].biddingStatus = "sold"]_vars

(* A step of PUT /:id: the store changes and no request slot does. *)
UpdateStep == db' # db /\ <<clock, bids, jobs, ops>>' = <<clock, bids, jobs, ops>>

BidFields ==
  {"bestBidder", "bestBidderEmail", "bidHistory", "biddingStatus",
   "reservedForWinner", "winnerNotified"}

PriceFields == {"currentPrice", "biddingEndTime", "minimumBidIncrement"}

(* C21 (as claimed): once a record has a bid, no update changes one of    *)
(* its bid-controlled fields or its price, end-time or increment fields,  *)
(* and the currentPrice of an auction record changes only in the write of *)
(* an accepted bid.                                                       *)
C21_PatchKeepsBidFields ==
  [][\A p \in DOMAIN db :
       /\ (UpdateStep /\ Len(db[p].bidHistory) >= 1) =>
            \A f \in BidFields \cup PriceFields : db'[p][f] = db[p][f]
       /\ (db[p].isBidding /\ db'[p].currentPrice # db[p].currentPrice) =>
            \E b \in DOMAIN bids :
              /\ bids[b].pc = "commit" /\ bids'[b].pc = "reread"
              /\ bids[b].product = p]_vars

DeleteDone(x) == x.kind = "delete" /\ x.pc = "done" /\ x.result # "NotFound"

ActiveAuction(r) == r.isBidding /\ r.biddingStatus = "active"

(* C22 (as claimed): a delete request on a record whose auction is active *)
(* leaves the record in place, and a delete request on a record with no   *)
(* active auction removes the record.                                      *)
C22_DeleteOnlyWhenInactive ==
  \A o \in DOMAIN ops :
    DeleteDone(ops[o]) =>
      IF ActiveAuction(ops[o].read)
        THEN ops[o].product \in DOMAIN db
      ELSE ops[o].product \notin DOMAIN db

(* The record is an auction whose end time is t or earlier (isExpired); a *)
(* record without an end time is not expired.                             *)
Expired(r, t) == r.isBidding /\ r.biddingEndTime # NoTime /\ t >= r.biddingEndTime

(* save() of the bid request b has run the pre-save hook in this step: it *)
(* read the clock the step leaves.                                         *)
HookStep(b) == bids[b].pc = "save" /\ bids'[b].pc = "commit"

WriteStep(b) == bids[b].pc = "commit" /\ bids'[b].pc = "reread"

(* C23: when the pre-save hook has run on a document, the document is not *)
(* both active and at or past its end time: one that was has status ended *)
(* and reservedForWinner set exactly when it has a bestBidder, and is     *)
(* otherwise as it was; any other document is left as it was; and the     *)
(* write stores the status and the flag the hook left.                    *)
C23_ResolverEndsExpired ==
  [][\A b \in DOMAIN bids :
       LET d == bids[b].doc.v
           e == bids'[b].doc.v
           p == bids[b].product
       IN /\ HookStep(b) =>
               /\ ~(e.biddingStatus = "active" /\ Expired(e, clock'))
               /\ IF d.biddingStatus = "active" /\ Expired(d, clock')
                    THEN e = [d EXCEPT !.biddingStatus = "ended",
                                       !.reservedForWinner = Truthy(d.bestBidder)]
                  ELSE e = d
          /\ WriteStep(b) =>
               /\ db'[p].biddingStatus = d.biddingStatus
               /\ db'[p].reservedForWinner = d.reservedForWinner]_vars

(* A bid validated before the end time and saved at it is stored with the *)
(* record ended and reserved for its bidder.                               *)
C23_Witness ==
  \E b \in DOMAIN bids :
    LET r == bids[b] IN
    /\ Accepted(r) /\ r.read.biddingStatus = "active"
    /\ r.doc.v.biddingStatus = "ended" /\ r.doc.v.reservedForWinner
    /\ db[r.product].biddingStatus = "ended"
    /\ db[r.product].reservedForWinner
    /\ db[r.product].bestBidder = Trim(r.bidder)
    /\ clock >= db[r.product].biddingEndTime

SameResolution(x, y) ==
  /\ x.biddingStatus = y.biddingStatus
  /\ x.reservedForWinner = y.reservedForWinner
  /\ x.bestBidder = y.bestBidder
  /\ x.currentPrice = y.currentPrice
  /\ x.bidHistory = y.bidHistory

(* save() of the request o passes validation and writes in this step. *)
OpWrites(o) == ops[o].pc = "loaded" /\ ops'[o].pc = "done" /\ ops'[o].result = "ok"

(* C24: the pre-save hook run on an already-ended record, at any time,    *)
(* leaves status, reservedForWinner, bestBidder, currentPrice and bid     *)
(* history as they are, and so does a second run; a second run on a       *)
(* record that was past its end time at the first changes nothing;        *)
(* reserveForWinner run a                                                  *)
(* second time leaves them as the first run left them; and a save of a    *)
(* document that is ended stores these five as the document has them.     *)
C24_ResolverIdempotent ==
  /\ [](\A p \in Products, t1 \in Times, t2 \in Times :
          LET d     == Load(db[p])
              once  == preSave(d, t1)
              twice == preSave(once, t2)
              r1    == reserveForWinner(d, t1)
              r2    == reserveForWinner(r1.doc, t2)
          IN /\ db[p].biddingStatus = "ended" =>
                  /\ SameResolution(once.v, db[p])
                  /\ SameResolution(twice.v, once.v)
             /\ (Expired(db[p], t1) /\ t1 <= t2) => twice = once
             /\ r1.error = "none" =>
                  /\ r2.error = "none"
                  /\ SameResolution(r2.doc.v, r1.doc.v))
  /\ [][\A o \in DOMAIN ops :
          (OpWrites(o) /\ ops[o].doc.v.biddingStatus = "ended") =>
            SameResolution(db'[ops[o].product], ops[o].doc.v)]_vars

(* A reserve succeeded on a record that was already ended, reserved and   *)
(* notified by earlier saves, and left it as it was.                      *)
C24_Witness ==
  \E o \in DOMAIN ops :
    /\ ReserveOp(ops[o]) /\ ops[o].result = "ok"
    /\ ops[o].read.biddingStatus = "ended" /\ ops[o].read.reservedForWinner
    /\ ops[o].read.winnerNotified
    /\ db[ops[o].product] = ops[o].read

(* C25 (as claimed): for every record and time, isBiddingEnded is         *)
(* (status in {ended, sold, reserved} or isExpired) and canBid is         *)
(* (auction-enabled and stock > 0 and status active and not isExpired).   *)
C25_PredicatesAsSpecified ==
  \A p \in Products, now \in Times :
    LET r == db[p] IN
    /\ isBiddingEnded(Load(r), now) <=>
         (r.biddingStatus \in {"ended", "sold", "reserved"} \/ Expired(r, now))
    /\ canBid(Load(r), now) <=>
         (r.isBidding /\ r.stock > 0 /\ r.biddingStatus = "active"
          /\ ~Expired(r, now))

(* C25 (amended): for every record and time, isBiddingEnded is            *)
(* (auction-enabled and (status in {ended, sold} or isExpired)) -- a      *)
(* record that is not auction-enabled has not ended, whatever its status  *)
(* -- and canBid is (auction-enabled and stock > 0 and status active and  *)
(* not isExpired); the notify route rejects exactly the records that have *)
(* not ended in this sense or have no bestBidder.                         *)
C25_PredicatesOfTheCode ==
  /\ \A p \in Products, now \in Times :
       LET r == db[p] IN
       /\ isBiddingEnded(Load(r), now) <=>
            (r.isBidding /\ (r.biddingStatus \in {"ended", "sold"} \/ Expired(r, now)))
       /\ canBid(Load(r), now) <=>
            (r.isBidding /\ r.stock > 0 /\ r.biddingStatus = "active"
             /\ ~Expired(r, now))
  /\ \A o \in DOMAIN ops :
       LET x == ops[o] IN
       (x.kind = "notify" /\ x.pc # "idle") =>
         (x.result = "NotEndedOrNoWinner" <=>
            ~( /\ x.read.isBidding
               /\ (x.read.biddingStatus \in {"ended", "sold"}
                   \/ Expired(x.read, x.loadedAt))
               /\ Truthy(x.read.bestBidder) ))

(* A notify request on a record that is not auction-enabled, has status   *)
(* sold and has a bestBidder was rejected: its bidding has not ended.     *)
C25_Witness ==
  \E o \in DOMAIN ops :
    /\ ops[o].kind = "notify" /\ ops[o].result = "NotEndedOrNoWinner"
    /\ ~ops[o].read.isBidding /\ ops[o].read.biddingStatus = "sold"
    /\ Truthy(ops[o].read.bestBidder)

(* C26 (as claimed): in every state with a non-empty bid history the last *)
(* entry's bidder and email are the record's bestBidder and               *)
(* bestBidderEmail, the first amount is at least the starting price plus  *)
(* the increment, and every later amount is at least the amount before it *)
(* plus the increment.                                                     *)
C26_HistoryMatchesBest ==
  \A p \in Products :
    LET h == db[p].bidHistory IN
    Len(h) >= 1 =>
      /\ h[Len(h)].bidder = db[p].bestBidder
      /\ h[Len(h)].bidderEmail = db[p].bestBidderEmail
      /\ h[1].amount >= StartPrice + db[p].minimumBidIncrement
      /\ \A i \in 2..Len(h) :
           h[i].amount >= h[i - 1].amount + db[p].minimumBidIncrement

IsPrefix(s, t) == Len(s) <= Len(t) /\ \A i \in 1..Len(s) : t[i] = s[i]

(* C27 (as claimed): no step changes, removes or reorders an entry of a   *)
(* stored bid history -- the history before the step is a prefix of the   *)
(* history after it -- and bidCount is the length of the history.         *)
C27_HistoryAppendOnly ==
  [][\A p \in DOMAIN db :
       /\ IsPrefix(db[p].bidHistory, db'[p].bidHistory)
       /\ bidCount(Load(db'[p])) = Len(db'[p].bidHistory)]_vars

CreateDone(x) == x.kind = "create" /\ x.pc = "done"

(* C28: a creation request for an auction is answered with success only   *)
(* when its end time is set and strictly after the time of the request    *)
(* (by the minimum lead), and it then stores a record with that end time, *)
(* status active, an empty bid history, bestBidder null and               *)
(* reservedForWinner and winnerNotified false, whatever else the body     *)
(* names; a request for an auction with no end time or one that is not in *)
(* the future is rejected, and a rejected request stores nothing.         *)
C28_AuctionCreatedOpen ==
  /\ [](\A o \in DOMAIN ops :
          LET x == ops[o] IN
          (CreateDone(x) /\ x.body.isBidding) =>
            /\ x.result = "created" <=>
                 (x.body.biddingEndTime # NoTime
                  /\ x.body.biddingEndTime >= x.loadedAt + MinLead)
            /\ (x.body.biddingEndTime = NoTime
                \/ x.body.biddingEndTime <= x.loadedAt) => x.result = "Validation"
            /\ x.result = "created" =>
                 /\ x.doc.v.biddingEndTime = x.body.biddingEndTime
                 /\ x.doc.v.biddingEndTime > x.loadedAt
                 /\ x.doc.v.isBidding
                 /\ x.doc.v.biddingStatus = "active"
                 /\ x.doc.v.bidHistory = <<>>
                 /\ x.doc.v.bestBidder = Null
                 /\ x.doc.v.bestBidderEmail = Null
                 /\ x.doc.v.reservedForWinner = FALSE
                 /\ x.doc.v.winnerNotified = FALSE)
  /\ [][\A o \in DOMAIN ops :
          (ops[o].pc = "idle" /\ CreateDone(ops'[o])) =>
            LET x == ops'[o] IN
            IF x.result = "created"
              THEN /\ x.product \notin DOMAIN db
                   /\ DOMAIN db' = DOMAIN db \cup {x.product}
                   /\ db'[x.product] = x.doc.v
                   /\ \A q \in DOMAIN db : db'[q] = db[q]
            ELSE db' = db]_vars

(* An auction was created from a body that also named a bestBidder and a  *)
(* reservation.                                                            *)
C28_Witness ==
  \E o \in DOMAIN ops :
    /\ CreateDone(ops[o]) /\ ops[o].result = "created"
    /\ ops[o].body.isBidding /\ ops[o].body.bestBidder = "Mallory"
    /\ ops[o].body.reservedForWinner
    /\ "p2" \in DOMAIN db
    /\ db["p2"].biddingStatus = "active" /\ db["p2"].bestBidder = Null
    /\ db["p2"].biddingEndTime > ops[o].loadedAt

(* The business-rule failures of the reserve, notify and purchase routes. *)
OpRejections ==
  {"CannotReserve", "NotEndedOrNoWinner", "InsufficientStock", "OnAuction",
   "ReservedForWinner"}

(* C29: a request rejected with a business-rule error -- a bid rejected   *)
(* as not biddable, closed, a bid on the own product or too low, a        *)
(* reserve rejected for want of an ended auction with a winner, a notify  *)
(* or a purchase rejected by its checks -- is rejected in a step that     *)
(* leaves the store as it was, and the copy it loaded carries no change.  *)
C29_RejectionWritesNothing ==
  /\ [](/\ \A b \in DOMAIN bids :
             (bids[b].pc = "done" /\ bids[b].result \in Rejections) =>
               bids[b].doc = Load(bids[b].read)
        /\ \A o \in DOMAIN ops :
             (ops[o].pc = "done" /\ ops[o].result \in OpRejections) =>
               ops[o].doc = Load(ops[o].read))
  /\ [][/\ \A b \in DOMAIN bids :
             ( /\ bids[b].pc # "done" /\ bids'[b].pc = "done"
               /\ bids'[b].result \in Rejections ) => db' = db
        /\ \A o \in DOMAIN ops :
             ( /\ ops[o].pc # "done" /\ ops'[o].pc = "done"
               /\ ops'[o].result \in OpRejections ) => db' = db]_vars

(* A reserve of an auction that has a bestBidder and has not ended was    *)
(* rejected, and the record is as it was loaded: active, not reserved.    *)
C29_Witness ==
  \E o \in DOMAIN ops :
    /\ ReserveOp(ops[o]) /\ ops[o].result = "CannotReserve"
    /\ Truthy(ops[o].read.bestBidder) /\ ops[o].read.biddingStatus = "active"
    /\ db[ops[o].product] = ops[o].read
    /\ ~db[ops[o].product].reservedForWinner

(* C30 (as claimed): a bid operation decides against one value of now: no *)
(* stored bid carries a timestamp at or after the end time of its record, *)
(* and a write that appends a bid never also moves the record to ended.   *)
C30_BidDecidesOnOneNow ==
  /\ [](\A p \in Products :
          \A i \in 1..Len(db[p].bidHistory) :
            db[p].biddingEndTime # NoTime =>
              db[p].bidHistory[i].timestamp < db[p].biddingEndTime)
  /\ [][\A b \in DOMAIN bids :
          (WriteStep(b) /\ bids[b].doc.pushed # <<>>) =>
            ~( /\ db[bids[b].product].biddingStatus = "active"
               /\ db'[bids[b].product].biddingStatus = "ended" )]_vars

PurchaseOp(x) == x.kind \in {"purchase", "batch"} /\ x.pc # "idle"

(* The request loaded a record reserved for a winner other than its user. *)
NotTheWinner(x) ==
  /\ x.read.reservedForWinner /\ Truthy(x.read.bestBidder)
  /\ x.buyer # x.read.bestBidderEmail

(* C31 (as claimed): a purchase request on a record reserved for a        *)
(* winner, by a user with another email, is rejected and the record keeps *)
(* its stock and status; and the reserved listing of an email is the set  *)
(* of records reserved for that email.                                     *)
C31_ReservedHeldForWinner ==
  /\ \A o \in DOMAIN ops :
       LET x == ops[o] IN
       (PurchaseOp(x) /\ NotTheWinner(x) /\ x.pc = "done") =>
         /\ x.result # "ok"
         /\ db[x.product].stock = x.read.stock
         /\ db[x.product].biddingStatus = x.read.biddingStatus
  /\ \A userEmail \in Buyers :
       findReservedForUser(userEmail) =
         { p \in DOMAIN db :
             db[p].reservedForWinner /\ db[p].bestBidderEmail = userEmail }

StatsDone(x) == x.kind = "stats" /\ x.pc = "done"

RECURSIVE TotalBids(_)
TotalBids(S) ==
  IF S = {} THEN 0
  ELSE LET p == CHOOSE q \in S : TRUE
       IN Len(db[p].bidHistory) + TotalBids(S \ {p})

(* C32 (as claimed): the stats operation changes no record, and its       *)
(* answer has, for every status some record has, the number of records of *)
(* that status and the sum of the lengths of their bid histories, and     *)
(* needsProcessing true exactly when some record is active with an end    *)
(* time at or before now.                                                 *)
C32_StatsCountsBids ==
  /\ [](\A o \in DOMAIN ops :
          LET x == ops[o] IN
          StatsDone(x) =>
            /\ DOMAIN x.stats.stats = {db[p].biddingStatus : p \in DOMAIN db}
            /\ \A s \in DOMAIN x.stats.stats :
                 LET group == {p \in DOMAIN db : db[p].biddingStatus = s} IN
                 /\ x.stats.stats[s].count = Cardinality(group)
                 /\ x.stats.stats[s].totalBids = TotalBids(group)
            /\ x.stats.needsProcessing <=>
                 \E p \in DOMAIN db :
                   /\ db[p].biddingStatus = "active"
                   /\ db[p].biddingEndTime # NoTime
                   /\ db[p].biddingEndTime <= x.loadedAt)
  /\ [][\A o \in DOMAIN ops :
          (ops[o].pc = "idle" /\ StatsDone(ops'[o])) => db' = db]_vars

(* The number of entries the list has for product p. *)
Entries(list, p) == Cardinality({k \in 1..Len(list) : list[k].product = p})

NoBidsLogged(j, p) ==
  Cardinality({k \in 1..Len(jobs[j].log) : jobs[j].log[k] = <<p, "nobids">>})

(* C33 (as claimed): when a run has ended, every record it selected is    *)
(* accounted for exactly once -- as a winner, with its winner, email and  *)
(* winning bid, as a failure with its error, or as a no-bids outcome --   *)
(* and the processed and failed counts are the lengths of the two lists.  *)
C33_SummaryAccountsForAll ==
  \A j \in DOMAIN jobs :
    jobs[j].pc = "done" =>
      \A i \in 1..Len(jobs[j].expired) :
        LET p == jobs[j].expired[i] IN
        /\ Entries(jobs[j].processed, p) + Entries(jobs[j].failed, p)
             + NoBidsLogged(j, p) = 1
        /\ \A k \in 1..Len(jobs[j].processed) :
             jobs[j].processed[k].product = p =>
               /\ jobs[j].processed[k].winner = db[p].bestBidder
               /\ jobs[j].processed[k].winningBid = db[p].currentPrice

(* C34 (as claimed): every run that is in its loop returns, and under     *)
(* fair periodic runs every record that is auction-enabled, active and    *)
(* past its end time is eventually ended.                                  *)
C34_ExpiredEventuallyResolved ==
  /\ (jobs["j1"].pc = "loop") ~> (jobs["j1"].pc = "done")
  /\ \A p \in Products :
       (db[p].isBidding /\ db[p].biddingStatus = "active" /\ Expired(db[p], clock))
         ~> (db[p].biddingStatus = "ended")

(* Both runs have returned and both had selected product p and loaded it  *)
(* with a winner.                                                          *)
BothRanOver(p) ==
  /\ \A j \in DOMAIN jobs : jobs[j].pc = "done" /\ (\E k \in 1..Len(jobs[j].expired) : jobs[j].expired[k] = p)
  /\ \A j \in DOMAIN jobs : Truthy(jobs[j].docs[p].v.bestBidder)

(* C35 (as claimed): when two runs of the job have gone over the same     *)
(* expired record with a winner, the record is reserved, it is a winner   *)
(* in the summary of at most one run, and a run that does not report it   *)
(* as a winner records a failure for it.                                   *)
C35_ReservedOnceByTwoRuns ==
  \A p \in Products : BothRanOver(p) =>
    /\ db[p].reservedForWinner /\ db[p].biddingStatus = "ended"
    /\ Entries(jobs["j1"].processed, p) + Entries(jobs["j2"].processed, p) <= 1
    /\ \A j \in DOMAIN jobs :
         Entries(jobs[j].processed, p) + Entries(jobs[j].failed, p) = 1

WinnerFields == {"bestBidder", "bestBidderEmail", "currentPrice", "bidHistory"}

(* C36 (as claimed): once a record is reserved for a winner, no step       *)
(* changes its bestBidder, bestBidderEmail, currentPrice or bid history.   *)
C36_WinnerFrozenOnceReserved ==
  [][\A p \in DOMAIN db :
       db[p].reservedForWinner =>
         \A f \in WinnerFields : db'[p][f] = db[p][f]]_vars

MaxOf(S) == CHOOSE m \in S : \A n \in S : n <= m

(* C37 (as claimed): a record with bids has as currentPrice the amount of *)
(* its last history entry, and that amount is the highest in the history. *)
C37_PriceIsLastAndHighest ==
  \A p \in DOMAIN db : LET h == db[p].bidHistory IN
    Len(h) >= 1 =>
      /\ db[p].currentPrice = h[Len(h)].amount
      /\ db[p].currentPrice = MaxOf({h[k].amount : k \in 1..Len(h)})

NotifyOp(x) == x.kind = "notify" /\ x.pc = "done"

(* C38 (as claimed): a stored record with winnerNotified true has a       *)
(* bestBidder and is not active; a notify request on a record whose       *)
(* bidding has not ended or that has no winner is rejected; and a notify  *)
(* request on an active record past its end time, with a winner, is       *)
(* answered with success and has stored status ended with the flag.        *)
C38_NotifiedImpliesResolved ==
  /\ \A p \in DOMAIN db :
       db[p].winnerNotified =>
         Truthy(db[p].bestBidder) /\ db[p].biddingStatus # "active"
  /\ \A o \in DOMAIN ops : LET x == ops[o] IN
       NotifyOp(x) =>
         /\ ~(EndedAt(x.read, x.loadedAt) /\ Truthy(x.read.bestBidder))
              => x.result = "NotEndedOrNoWinner"
         /\ ( /\ x.read.isBidding /\ x.read.biddingStatus = "active"
              /\ ExpiredAt(x, x.loadedAt) /\ Truthy(x.read.bestBidder) )
              => /\ x.result = "ok"
                 /\ db[x.product].winnerNotified
                 /\ db[x.product].biddingStatus = "ended"

(* C39 (as claimed): a purchase answered with success had a quantity of   *)
(* at least 1 and at most the stock it read, and stored that stock less   *)
(* the quantity; and no step raises a record's stock or makes it          *)
(* negative.                                                               *)
C39_PurchaseQuantityPositive ==
  [][\A p \in Products :
       /\ \A o \in DOMAIN ops : PurchaseSaved(o, p) =>
            /\ ops[o].quantity >= 1
            /\ ops[o].quantity <= ops[o].read.stock
            /\ db'[p].stock = ops[o].read.stock - ops[o].quantity
       /\ db'[p].stock >= 0
       /\ db'[p].stock <= db[p].stock]_vars

(* The quantities of the purchases on p answered with success, summed. *)
BoughtOf(p) ==
  LET q(o) == IF PurchaseOp(ops[o]) /\ ops[o].product = p
                 /\ ops[o].pc = "done" /\ ops[o].result = "ok"
                THEN ops[o].quantity ELSE 0
  IN q("o1") + q("o2")

(* C40 (as claimed): whatever the interleaving of the purchase requests   *)
(* on a record, each for a quantity of at least 1, the quantities         *)
(* answered with success sum to at most the stock the record had before   *)
(* them, and once no request is in flight the stock is that stock less    *)
(* the sum.                                                                *)
C40_ConcurrentPurchasesAddUp ==
  \A p \in Products :
    (\A o \in DOMAIN ops : ops[o].quantity >= 1 \/ ops[o].pc = "idle") =>
      /\ BoughtOf(p) <= NewRegular.stock
      /\ (\A o \in DOMAIN ops : ops[o].pc # "loaded")
           => db[p].stock = NewRegular.stock - BoughtOf(p)

====
